---- MODULE Spec2Model ----
(***************************************************************************)
(* Cylinder Management dashboard (lgas1.py): one Streamlit script that is  *)
(* re-executed on every interaction.  Each run first loads the snapshot    *)
(* (st.cache_data, ttl = 60 s) and then renders the selected page; the     *)
(* Return and Add pages write to the remote "cylinders" table.             *)
(***************************************************************************)
EXTENDS Integers, Sequences, FiniteSets, TLC

VARIABLES
    store,         \* rows of the remote table "cylinders", in insertion order
    cache,         \* st.cache_data entry of load_supabase_data
    cacheAge,      \* seconds since the entry was stored (saturates at Ttl)
    df,            \* the snapshot of the current script run (line 34)
    last_refresh,  \* st.session_state["last_refresh"]
    today,         \* calendar date in Asia/Kolkata, as a day number
    serverBehind,  \* the server's naive local date is one day behind the IST date
    rerun,         \* st.rerun() was called: the script runs again at once
    view           \* what the last script run rendered / submitted

vars == <<store, cache, cacheAge, df, last_refresh, today, serverBehind, rerun, view>>

----------------------------------------------------------------------------
(* Bounds of the model *)

MaxRecords == 2      \* rows the table may hold
Day0 == 1            \* day number of the first IST date observed

(* Program constants *)

Ttl == 60            \* @st.cache_data(ttl=60)
TestInterval == 1825 \* pd.Timedelta(days=1825)

\* the IST dates observed: the first day, and the day a cylinder registered on
\* it (server date Day0 - 1 or Day0) has reached or passed its test-due date
DaySet == {Day0, Day0 + TestInterval}

----------------------------------------------------------------------------
(* Text: a string is a sequence of one-character strings *)

Blank == " "
Dot == "."

UpperChar(c) == CASE c = "a" -> "A" [] c = "b" -> "B" [] c = "x" -> "X"
                  [] c = "y" -> "Y" [] OTHER -> c

RECURSIVE Upper(_)
Upper(s) == IF s = <<>> THEN <<>> ELSE <<UpperChar(Head(s))>> \o Upper(Tail(s))

RECURSIVE LStrip(_)
LStrip(s) == IF s # <<>> /\ Head(s) = Blank THEN LStrip(Tail(s)) ELSE s

RECURSIVE RStrip(_)
RStrip(s) == IF s # <<>> /\ s[Len(s)] = Blank
             THEN RStrip(SubSeq(s, 1, Len(s) - 1)) ELSE s

Strip(s) == RStrip(LStrip(s))

\* re.search(pat, s) for patterns of literal characters and the wildcard "."
RegexMatchAt(pat, s, k) ==
    /\ k + Len(pat) - 1 <= Len(s)
    /\ \A i \in 1..Len(pat) : pat[i] = Dot \/ pat[i] = s[k + i - 1]

RegexSearch(pat, s) == \E k \in 1..(Len(s) + 1) : RegexMatchAt(pat, s, k)

\* Series.str.contains(pat, case=..., na=False): regex=True is the default
StrContains(s, pat, ignoreCase) ==
    IF ignoreCase THEN RegexSearch(Upper(pat), Upper(s)) ELSE RegexSearch(pat, s)

DigitChars == {"0", "1", "2", "3", "4", "5", "6", "7", "8", "9"}

DigitValue(c) == CASE c = "0" -> 0 [] c = "1" -> 1 [] c = "2" -> 2 [] c = "3" -> 3
                   [] c = "4" -> 4 [] c = "5" -> 5 [] c = "6" -> 6 [] c = "7" -> 7
                   [] c = "8" -> 8 [] c = "9" -> 9

DigitChar(n) == CHOOSE c \in DigitChars : DigitValue(c) = n

\* str.isdigit()
IsDigit(s) == s # <<>> /\ \A i \in 1..Len(s) : s[i] \in DigitChars

\* int(pin)
RECURSIVE IntOf(_)
IntOf(s) == IF s = <<>> THEN 0
            ELSE 10 * IntOf(SubSeq(s, 1, Len(s) - 1)) + DigitValue(s[Len(s)])

\* str(n) of a non-negative integer
RECURSIVE StrOfInt(_)
StrOfInt(n) == IF n < 10 THEN <<DigitChar(n)>>
               ELSE StrOfInt(n \div 10) \o <<DigitChar(n % 10)>>

\* str(date): the ISO text of a date; pd.to_datetime reads it back, NaT otherwise
NaT == -1
DateStr(d) == <<"iso", d>>
ToDatetime(s) == IF Len(s) = 2 /\ s[1] = "iso" THEN s[2] ELSE NaT

----------------------------------------------------------------------------
(* Inputs the widgets offer or the operator types *)

Conditions == {"Good", "Dented", "Leaking", "Valve Damage"}
StatusFilters == {"All", "Full", "Empty", "Damaged"}
CapacityOptions == {50, 100, 142, 190, 475}     \* kg, in tenths

IdInputs == {<<>>, <<" ">>, <<"a">>, <<" ", "b">>}
NameInputs == {<<"x">>}
PinInputs == {<<"5", "0">>}
DefaultCap == 142                               \* index=2 of the options
CapInputs == CapacityOptions \cap {DefaultCap}

SearchIdInputs == {<<>>, <<"a", " ">>, <<".">>}
SearchNameInputs == {<<>>, <<"y">>}

----------------------------------------------------------------------------
(* The remote table and the snapshot *)

LocalDate == IF serverBehind THEN today - 1 ELSE today

\* lines 22-27: Location_PIN as stripped text, the three date columns as datetimes
ParseRow(r) ==
    [r EXCEPT !.Location_PIN   = Strip(StrOfInt(@)),
              !.Last_Fill_Date = ToDatetime(@),
              !.Last_Test_Date = ToDatetime(@),
              !.Next_Test_Due  = ToDatetime(@)]

ParseFrame(rows) == [i \in 1..Len(rows) |-> ParseRow(rows[i])]

NoCache == [present |-> FALSE, df |-> <<>>]

CacheHit == cache.present /\ cacheAge < Ttl

\* df = load_supabase_data(): the cached value, or a fresh select; when the
\* select raises, the function returns (and st.cache_data stores) an empty frame
LoadedDf(ok) == IF CacheHit THEN cache.df ELSE IF ok THEN ParseFrame(store) ELSE <<>>

CacheAfterLoad(ok) == IF CacheHit THEN cache ELSE [present |-> TRUE, df |-> LoadedDf(ok)]

AgeAfterLoad == IF CacheHit THEN cacheAge ELSE 0

RefreshAfterLoad(ok) ==
    IF CacheHit THEN last_refresh ELSE IF ok THEN "HH:MM:SS" ELSE "Refresh Error"

\* the top of every script run, the cache kept
Load(ok) ==
    /\ df' = LoadedDf(ok)
    /\ cache' = CacheAfterLoad(ok)
    /\ cacheAge' = AgeAfterLoad
    /\ last_refresh' = RefreshAfterLoad(ok)

\* LoadThenClear with the st.cache_data.clear() call left out
LoadNoClear(ok) ==
    /\ df' = LoadedDf(ok)
    /\ cache' = CacheAfterLoad(ok)
    /\ cacheAge' = AgeAfterLoad
    /\ last_refresh' = RefreshAfterLoad(ok)
    /\ rerun' = TRUE

\* the top of a script run that ends in st.cache_data.clear(); st.rerun()
LoadThenClear(ok) ==
    /\ df' = LoadedDf(ok)
    /\ cache' = NoCache
    /\ cacheAge' = 0
    /\ last_refresh' = RefreshAfterLoad(ok)
    /\ rerun' = TRUE

\* IsOverdueRow with a strict comparison (due today is not yet overdue)
IsOverdueRowStrict(r, ref) == r.Next_Test_Due # NaT /\ r.Next_Test_Due < ref

\* Next_Test_Due.date() <= today; a NaT compares false
IsOverdueRow(r, ref) == r.Next_Test_Due # NaT /\ r.Next_Test_Due <= ref

OverdueRows(frame, ref) == SelectSeq(frame, LAMBDA r : IsOverdueRow(r, ref))

Highlight(frame, ref) == [i \in 1..Len(frame) |-> IsOverdueRow(frame[i], ref)]

\* part_000 line 49: the Overdue metric summed from the stored column
StoredOverdueMetric(frame) ==
    Cardinality({i \in 1..Len(frame) : frame[i].Overdue})

UniqueIds(frame) == {frame[i].Cylinder_ID : i \in 1..Len(frame)}

----------------------------------------------------------------------------
Init ==
    /\ store = <<>>
    /\ cache = NoCache
    /\ cacheAge = 0
    /\ df = <<>>
    /\ last_refresh = "Initializing..."
    /\ today = Day0
    /\ serverBehind \in BOOLEAN
    /\ rerun = FALSE
    /\ view = [page |-> "None"]

\* the run st.rerun() starts: the snapshot is loaded, no button is pressed
Rerun ==
    /\ rerun
    /\ \E ok \in BOOLEAN : Load(ok)
    /\ rerun' = FALSE
    /\ view' = [page |-> "Rerun", of |-> view.page]
    /\ UNCHANGED <<store, today, serverBehind>>

\* sidebar button "Refresh Data Now"
RefreshDataNow ==
    /\ ~rerun
    /\ \E ok \in BOOLEAN : LoadThenClear(ok)
    /\ view' = [page |-> "Refresh"]
    /\ UNCHANGED <<store, today, serverBehind>>

DashboardView(frame, ref) ==
    IF frame # <<>>
    THEN [page |-> "Dashboard",
          total |-> Len(frame),
          overdue_count |-> Len(OverdueRows(frame, ref)),
          empty_stock |-> Len(SelectSeq(frame, LAMBDA r : r.Status = "Empty")),
          highlighted |-> Highlight(frame, ref),
          today |-> ref]
    ELSE [page |-> "Dashboard", warning |-> "No data found."]

Dashboard ==
    /\ ~rerun
    /\ \E ok \in BOOLEAN : Load(ok)
    /\ view' = DashboardView(df', today)
    /\ UNCHANGED <<store, today, serverBehind, rerun>>

\* lines 103-109: the three filters, each applied only when given; an empty
\* frame has no columns, so the first column access raises KeyError
FinderCrashes(frame, s_id, s_name, s_status) ==
    frame = <<>> /\ (s_id # <<>> \/ s_name # <<>> \/ s_status # "All")

FilterId(frame, s_id) ==
    IF s_id # <<>>
    THEN SelectSeq(frame, LAMBDA r : StrContains(Upper(r.Cylinder_ID), s_id, FALSE))
    ELSE frame

FilterName(frame, s_name) ==
    IF s_name # <<>>
    THEN SelectSeq(frame, LAMBDA r : StrContains(r.Customer_Name, s_name, TRUE))
    ELSE frame

FilterStatus(frame, s_status) ==
    IF s_status # "All"
    THEN SelectSeq(frame, LAMBDA r : r.Status = s_status)
    ELSE frame

FinderFilter(frame, s_id, s_name, s_status) ==
    FilterStatus(FilterName(FilterId(frame, s_id), s_name), s_status)

\* lines 113-127: the alert shown for an id or customer search
FinderAlert(f_df, s_id, s_name, ref) ==
    IF s_id # <<>> \/ s_name # <<>>
    THEN IF f_df # <<>>
         THEN LET num_overdue == Len(OverdueRows(f_df, ref))
              IN  IF num_overdue > 0
                  THEN IF s_id # <<>> /\ num_overdue = 1
                       THEN [kind |-> "SAFETY ALERT", num_overdue |-> num_overdue]
                       ELSE [kind |-> "ATTENTION", num_overdue |-> num_overdue]
                  ELSE [kind |-> "No overdue", num_overdue |-> 0]
         ELSE [kind |-> "No matching", num_overdue |-> 0]
    ELSE [kind |-> "None", num_overdue |-> 0]

FinderView(frame, id_in, name_in, s_status, ref) ==
    LET s_id   == Upper(Strip(id_in))
        s_name == Strip(name_in)
    IN  IF FinderCrashes(frame, s_id, s_name, s_status)
        THEN [page |-> "Finder", id_in |-> id_in, name_in |-> name_in,
              s_status |-> s_status, crashed |-> TRUE]
        ELSE LET f_df == FinderFilter(frame, s_id, s_name, s_status)
             IN  [page |-> "Finder", id_in |-> id_in, name_in |-> name_in,
                  s_status |-> s_status, crashed |-> FALSE,
                  f_df |-> f_df,
                  alert |-> FinderAlert(f_df, s_id, s_name, ref),
                  highlighted |-> Highlight(f_df, ref),
                  today |-> ref]

CylinderFinder ==
    /\ ~rerun
    /\ \E ok \in BOOLEAN : Load(ok)
    /\ \E id_in \in SearchIdInputs, name_in \in SearchNameInputs,
          s_status \in StatusFilters :
            view' = FinderView(df', id_in, name_in, s_status, today)
    /\ UNCHANGED <<store, today, serverBehind, rerun>>

\* line 150
NewStatus(condition) == IF condition = "Good" THEN "Empty" ELSE "Damaged"

\* UpdateRows with the .eq("Cylinder_ID", target_id) filter left out
UpdateRowsAll(rows, target_id, new_status) ==
    [i \in 1..Len(rows) |-> [rows[i] EXCEPT !.Status = new_status, !.Fill_Percent = 0]]

\* line 152: update({"Status": ..., "Fill_Percent": 0}).eq("Cylinder_ID", target_id)
UpdateRows(rows, target_id, new_status) ==
    [i \in 1..Len(rows) |->
        IF rows[i].Cylinder_ID = target_id
        THEN [rows[i] EXCEPT !.Status = new_status, !.Fill_Percent = 0]
        ELSE rows[i]]

ReturnView(target_id, condition, msg) ==
    [page |-> "Return", target_id |-> target_id, condition |-> condition,
     new_status |-> NewStatus(condition), msg |-> msg]

\* "Submit Return" on the Return & Penalty Log page
ReturnSubmit ==
    /\ ~rerun
    /\ \E ok \in BOOLEAN, condition \in Conditions :
         /\ LoadedDf(ok) # <<>>
         /\ \E target_id \in UniqueIds(LoadedDf(ok)) :
              \/ /\ store' = UpdateRows(store, target_id, NewStatus(condition))
                 /\ view' = ReturnView(target_id, condition, "processed")
                 /\ LoadThenClear(ok)
              \/ /\ view' = ReturnView(target_id, condition, "Update failed")
                 /\ Load(ok)
                 /\ UNCHANGED <<store, rerun>>
    /\ UNCHANGED <<today, serverBehind>>

\* Payload with the test interval not added to Next_Test_Due
PayloadNoInterval(c_id, cust, pin, cap_val, date) ==
    [Cylinder_ID    |-> c_id,
     Customer_Name  |-> cust,
     Location_PIN   |-> IF IsDigit(pin) THEN IntOf(pin) ELSE 0,
     Capacity_kg    |-> cap_val,
     Fill_Percent   |-> 100,
     Status         |-> "Full",
     Last_Fill_Date |-> DateStr(date),
     Last_Test_Date |-> DateStr(date),
     Next_Test_Due  |-> DateStr(date),
     Overdue        |-> FALSE]

\* lines 179-190
Payload(c_id, cust, pin, cap_val, date) ==
    [Cylinder_ID    |-> c_id,
     Customer_Name  |-> cust,
     Location_PIN   |-> IF IsDigit(pin) THEN IntOf(pin) ELSE 0,
     Capacity_kg    |-> cap_val,
     Fill_Percent   |-> 100,
     Status         |-> "Full",
     Last_Fill_Date |-> DateStr(date),
     Last_Test_Date |-> DateStr(date),
     Next_Test_Due  |-> DateStr(date + TestInterval),
     Overdue        |-> FALSE]

AddView(id_in, cust, pin, cap_val, msg) ==
    [page |-> "Add", id_in |-> id_in, cust |-> cust, pin |-> pin,
     cap_val |-> cap_val, msg |-> msg]

\* "Add Cylinder" on the Register New Cylinder page
AddCylinder ==
    /\ ~rerun
    /\ \E ok \in BOOLEAN, id_in \in IdInputs, cust \in NameInputs,
          pin \in PinInputs, cap_val \in CapInputs :
         LET c_id == Upper(Strip(id_in))
         IN  \/ /\ c_id = <<>>
                /\ view' = AddView(id_in, cust, pin, cap_val, "Missing Cylinder ID!")
                /\ Load(ok)
                /\ UNCHANGED <<store, rerun>>
             \/ /\ c_id # <<>>
                /\ Len(store) < MaxRecords
                /\ store' = Append(store, Payload(c_id, cust, pin, cap_val, LocalDate))
                /\ view' = AddView(id_in, cust, pin, cap_val, "added")
                /\ LoadThenClear(ok)
             \/ /\ c_id # <<>>
                /\ view' = AddView(id_in, cust, pin, cap_val, "Database Error")
                /\ Load(ok)
                /\ UNCHANGED <<store, rerun>>
    /\ UNCHANGED <<today, serverBehind>>

\* the cache interval passes: the entry is ttl seconds old
Elapse ==
    /\ ~rerun
    /\ cache.present
    /\ cacheAge < Ttl
    /\ cacheAge' = Ttl
    /\ UNCHANGED <<store, cache, df, last_refresh, today, serverBehind, rerun, view>>

\* the calendar moves on: the server's date catches up with the IST date, or a
\* later IST date begins (more than a day later, the cache entry has expired)
ClockAdvance ==
    /\ ~rerun
    /\ \E d \in DaySet, b \in BOOLEAN :
         /\ d > today \/ (d = today /\ serverBehind /\ ~b)
         /\ today' = d
         /\ serverBehind' = b
         /\ cacheAge' = IF cache.present /\ d > today + 1 THEN Ttl ELSE cacheAge
    /\ UNCHANGED <<store, cache, df, last_refresh, rerun, view>>

Next ==
    \/ Rerun
    \/ RefreshDataNow
    \/ Dashboard
    \/ ReturnSubmit
    \/ AddCylinder
    \/ Elapse
    \/ ClockAdvance

Spec == Init /\ [][Next]_vars

----------------------------------------------------------------------------
(* The two read-only pages over every table of up to MaxRecords registered *)
(* cylinders, some of them returned since                                   *)

SampleNames == {<<"x">>, <<"X", "y">>}
SamplePin == <<"5", "a">>

\* a cylinder registered on the server date Day0 - 1 and perhaps returned in
\* good condition since, or one registered on Day0
SampleHistories == {<<Day0 - 1, "None">>, <<Day0 - 1, "Good">>, <<Day0, "None">>}

\* the IST dates on which the pages are opened: for the first cylinders the
\* due date itself or the day after, for the second the day before or the due date
ViewDays == {Day0 + TestInterval - 1, Day0 + TestInterval}

SampleRow(id_in, cust, condition, date) ==
    LET p == Payload(Upper(Strip(id_in)), cust, SamplePin, DefaultCap, date)
    IN  IF condition = "None" THEN p
        ELSE UpdateRows(<<p>>, p.Cylinder_ID, NewStatus(condition))[1]

SampleRows ==
    {SampleRow(id_in, cust, h[2], h[1]) :
        id_in \in {i \in IdInputs : Strip(i) # <<>>},
        cust \in SampleNames, h \in SampleHistories}

SampleStores == UNION {[1..n -> SampleRows] : n \in 0..MaxRecords}

InitViews ==
    /\ serverBehind = FALSE
    /\ today \in ViewDays
    /\ store \in SampleStores
    /\ cache = NoCache
    /\ cacheAge = 0
    /\ df = <<>>
    /\ last_refresh = "Initializing..."
    /\ rerun = FALSE
    /\ view = [page |-> "None"]

NextViews ==
    \/ Dashboard
    \/ CylinderFinder

SpecViews == InitViews /\ [][NextViews]_vars

----------------------------------------------------------------------------
(* Properties *)

Submitted(pg, m) == view.page = pg /\ view.msg = m

PenaltyDue(condition, was_overdue) ==
    (IF condition # "Good" THEN 500 ELSE 0) + (IF was_overdue THEN 1000 ELSE 0)

WasOverdue(frame, id, ref) ==
    \E i \in 1..Len(frame) :
        frame[i].Cylinder_ID = id /\ ref >= frame[i].Next_Test_Due

\* C1: a processed return computes a penalty of 0, plus 500 when the condition
\* is not Good, plus 1000 when the cylinder was overdue.
C1_PenaltyComputed ==
    (rerun /\ view.page = "Return") =>
        /\ "penalty" \in DOMAIN view
        /\ view.penalty =
              PenaltyDue(view.condition, WasOverdue(df, view.target_id, today))

IdCount(rows, id) == Cardinality({i \in 1..Len(rows) : rows[i].Cylinder_ID = id})

\* C2: a registration whose cylinder_id is already in the table is rejected
\* by validation before any insert call is made: the insert call, whose
\* failure is what "Database Error" reports, is never made for such an id.
C2_DuplicateRejected ==
    (view.page = "Add" /\ view.msg = "Database Error") =>
        IdCount(store, Upper(Strip(view.id_in))) = 0

DueCount(frame, ref) ==
    Cardinality({i \in 1..Len(frame) : ref >= frame[i].Next_Test_Due})

\* C3: a row is counted in the dashboard's overdue metric, counted in the
\* finder's alert and highlighted exactly when the reference date is on or
\* after its next_test_due.
C3_OverdueIffDue ==
    /\ (view.page = "Dashboard" /\ df # <<>>) =>
          /\ view.overdue_count = DueCount(df, view.today)
          /\ \A i \in 1..Len(df) :
                view.highlighted[i] = (view.today >= df[i].Next_Test_Due)
    /\ (view.page = "Finder" /\ ~view.crashed) =>
          /\ \A i \in 1..Len(view.f_df) :
                view.highlighted[i] = (view.today >= view.f_df[i].Next_Test_Due)
          /\ view.alert.kind \in {"SAFETY ALERT", "ATTENTION", "No overdue"} =>
                view.alert.num_overdue = DueCount(view.f_df, view.today)
          /\ view.alert.kind \in {"SAFETY ALERT", "ATTENTION"} <=>
                /\ Strip(view.id_in) # <<>> \/ Strip(view.name_in) # <<>>
                /\ DueCount(view.f_df, view.today) > 0

C3_Witness ==
    /\ view.page = "Finder"
    /\ ~view.crashed
    /\ view.alert.kind = "SAFETY ALERT"
    /\ Len(view.f_df) = 2
    /\ \E i \in 1..Len(view.f_df) : view.f_df[i].Next_Test_Due = view.today

KeptOnReturn ==
    {"Cylinder_ID", "Customer_Name", "Location_PIN", "Capacity_kg",
     "Last_Fill_Date", "Last_Test_Date", "Next_Test_Due", "Overdue"}

\* C4: a processed return of cylinder X with condition C sets, on the rows
\* whose cylinder_id is X, status to Empty (C = Good) or Damaged and
\* fill_percent to 0, and changes nothing else: no other attribute, no other
\* row, no row added or removed.
C4_ReturnFrame ==
    [][(view'.page = "Return" /\ view'.msg = "processed") =>
          /\ Len(store') = Len(store)
          /\ \A i \in 1..Len(store) :
                IF store[i].Cylinder_ID = view'.target_id
                THEN /\ store'[i].Status =
                          (IF view'.condition = "Good" THEN "Empty" ELSE "Damaged")
                     /\ store'[i].Fill_Percent = 0
                     /\ \A f \in KeptOnReturn : store'[i][f] = store[i][f]
                ELSE store'[i] = store[i]]_vars

C4_Witness ==
    /\ rerun
    /\ view.page = "Return"
    /\ view.condition = "Leaking"
    /\ Len(store) = 2
    /\ \E i, j \in 1..Len(store) :
          /\ store[i].Cylinder_ID = view.target_id
          /\ store[i].Status = "Damaged"
          /\ store[j].Cylinder_ID # view.target_id
          /\ store[j].Status = "Full"

\* C5: a load that fails leaves the snapshot at the last successfully loaded
\* record set (empty only when no load has succeeded yet).
C5_KeepsLastGood ==
    [][(~CacheHit /\ last_refresh' = "Refresh Error") => df' = df]_vars

\* literal, case-insensitive substring test
ContainsIgnoreCase(s, sub) ==
    LET S == Upper(s)
        P == Upper(sub)
    IN  \E k \in 1..(Len(S) + 1) :
            /\ k + Len(P) - 1 <= Len(S)
            /\ \A i \in 1..Len(P) : P[i] = S[k + i - 1]

\* C6: the finder's result is exactly the snapshot rows whose cylinder_id
\* contains the id filter and whose customer_name contains the name filter,
\* both ignoring case, and whose status equals the status filter ("All" and
\* empty filters match every row).
C6_FinderResult ==
    (view.page = "Finder" /\ ~view.crashed) =>
        view.f_df =
            SelectSeq(df, LAMBDA r :
                /\ ContainsIgnoreCase(r.Cylinder_ID, Strip(view.id_in))
                /\ ContainsIgnoreCase(r.Customer_Name, Strip(view.name_in))
                /\ view.s_status = "All" \/ r.Status = view.s_status)

\* C7: a successful registration appends exactly one row with status Full,
\* fill_percent 100, last_fill_date = last_test_date = the creation date,
\* next_test_due = creation date + 1825 days and overdue = false; a
\* registration that does not succeed, and any with an empty trimmed id,
\* inserts nothing.
C7_Registration ==
    [][view'.page = "Add" =>
          /\ Strip(view'.id_in) = <<>> => store' = store
          /\ IF view'.msg = "added"
             THEN /\ Len(store') = Len(store) + 1
                  /\ SubSeq(store', 1, Len(store)) = store
                  /\ LET r == store'[Len(store')]
                     IN  /\ r.Cylinder_ID = Upper(Strip(view'.id_in))
                         /\ r.Status = "Full"
                         /\ r.Fill_Percent = 100
                         /\ r.Last_Fill_Date = DateStr(LocalDate')
                         /\ r.Last_Test_Date = DateStr(LocalDate')
                         /\ r.Next_Test_Due = DateStr(LocalDate' + 1825)
                         /\ r.Overdue = FALSE
             ELSE store' = store]_vars

C7_Witness ==
    /\ rerun
    /\ Submitted("Add", "added")
    /\ Len(store) = 2
    /\ store[2].Cylinder_ID = <<"B">>
    /\ store[2].Next_Test_Due = DateStr(LocalDate + TestInterval)

\* C8: every stored row's overdue attribute is true exactly when the current
\* date is on or after its next_test_due, so the metric summed from the stored
\* column equals the count obtained by comparing dates.
C8_StoredOverdueDerived ==
    /\ \A i \in 1..Len(store) :
          store[i].Overdue = (today >= ToDatetime(store[i].Next_Test_Due))
    /\ StoredOverdueMetric(ParseFrame(store)) =
          Len(OverdueRows(ParseFrame(store), today))

\* C9: a row registered at some instant is stamped with the evaluator's
\* reference date of that instant: last_fill_date is that date and
\* next_test_due is 1825 days after it.
C9_SameClock ==
    (rerun /\ Submitted("Add", "added")) =>
        /\ store[Len(store)].Last_Fill_Date = DateStr(today)
        /\ store[Len(store)].Next_Test_Due = DateStr(today + TestInterval)

WriteFailed(v) ==
    /\ v.page \in {"Return", "Add"}
    /\ v.msg \in {"Update failed", "Database Error"}

CacheRules ==
    /\ rerun => cache = NoCache
    /\ CacheHit => df' = cache.df
    /\ WriteFailed(view') => store' = store /\ cache'.present

====
